---- MODULE Spec2Model ----
(***************************************************************************)
(* The indicator pipeline of mytrader.py: RSI oscillator, rolling base     *)
(* channel, RSI-adjusted channel, smoothing, dropna, crossover signals and *)
(* the latest-bar snapshot.  The script runs top to bottom once; pc is the *)
(* position in the script.                                                 *)
(*                                                                         *)
(* Numbers are exact rationals <<n, d>> in lowest terms with d >= 0.       *)
(* d = 0 encodes the IEEE special values the script can produce:           *)
(* <<0,0>> is NaN, <<1,0>> is +inf, <<-1,0>> is -inf.  Rounding of binary  *)
(* floating point is not modelled.                                         *)
(***************************************************************************)
EXTENDS Integers, Sequences, FiniteSets, TLC

VARIABLES pc, rsiPeriod, lookback, smoothLength, prices, valid, latest, other

vars == <<pc, rsiPeriod, lookback, smoothLength, prices, valid, latest, other>>

(* ---------------- bounds of the model ---------------- *)
MaxLen == 7
MaxClose == 2
MaxRsiPeriod == 3
MaxLookback == 5
MaxSmooth == 2

(* ---------------- widget minimums (st.number_input min_value) -------- *)
MinRsiPeriod == 2
MinLookback == 5
MinSmooth == 1

(* ---------------- numbers ---------------- *)
NaN == <<0, 0>>
Zero == <<0, 1>>

AbsInt(x) == IF x < 0 THEN -x ELSE x

SignInt(x) == IF x < 0 THEN -1 ELSE IF x > 0 THEN 1 ELSE 0

RECURSIVE GCD(_, _)
GCD(a, b) == IF b = 0 THEN a ELSE GCD(b, a % b)

\* lowest terms, denominator >= 0; a zero denominator keeps only the sign
Norm(n, d) ==
  IF d = 0 THEN <<SignInt(n), 0>>
  ELSE LET s == IF d < 0 THEN -1 ELSE 1
           g == GCD(AbsInt(n), AbsInt(d))
       IN <<(s * n) \div g, (s * d) \div g>>

Nm(x) == <<x, 1>>

isna(a) == a = NaN

Add(a, b) ==
  IF a[2] = 0 /\ b[2] = 0
    THEN IF a[1] = b[1] THEN a ELSE NaN
    ELSE Norm(a[1] * b[2] + b[1] * a[2], a[2] * b[2])

Neg(a) == <<-a[1], a[2]>>

Sub(a, b) == Add(a, Neg(b))

Mul(a, b) == Norm(a[1] * b[1], a[2] * b[2])

Div(a, b) == Norm(a[1] * b[2], a[2] * b[1])

Abs(a) == <<AbsInt(a[1]), a[2]>>

\* comparisons are False as soon as one side is NaN
Lt(a, b) == ~isna(a) /\ ~isna(b) /\ a[1] * b[2] < b[1] * a[2]

Gt(a, b) == Lt(b, a)

Le(a, b) == ~isna(a) /\ ~isna(b) /\ a[1] * b[2] <= b[1] * a[2]

Ge(a, b) == Le(b, a)

RECURSIVE SumOver(_, _)
SumOver(s, I) ==
  IF I = {} THEN Zero
  ELSE LET i == CHOOSE x \in I : TRUE IN Add(s[i], SumOver(s, I \ {i}))

MinOver(s, I) == CHOOSE v \in {s[i] : i \in I} : \A j \in I : Le(v, s[j])

MaxOver(s, I) == CHOOSE v \in {s[i] : i \in I} : \A j \in I : Ge(v, s[j])

(* ---------------- pandas / numpy primitives ---------------- *)
\* a column of values, held as a tuple
Series(f) == f \o <<>>

\* Series.diff(): the first entry is NaN
diff(s) == Series([i \in 1..Len(s) |-> IF i = 1 THEN NaN ELSE Sub(s[i], s[i - 1])])

\* the trailing window of size w ending at i, and its non-NaN observations
Window(i, w) == (IF i - w + 1 > 1 THEN i - w + 1 ELSE 1)..i

Obs(s, i, w) == {j \in Window(i, w) : ~isna(s[j])}

\* Series.rolling(window, min_periods).mean()
rolling_mean(s, window, min_periods) ==
  Series([i \in 1..Len(s) |->
     LET I == Obs(s, i, window)
     IN IF Cardinality(I) < min_periods \/ I = {} THEN NaN
        ELSE Div(SumOver(s, I), Nm(Cardinality(I)))])

\* Series.rolling(window, min_periods).min()
rolling_min(s, window, min_periods) ==
  Series([i \in 1..Len(s) |->
     LET I == Obs(s, i, window)
     IN IF Cardinality(I) < min_periods \/ I = {} THEN NaN ELSE MinOver(s, I)])

\* Series.rolling(window, min_periods).max()
rolling_max(s, window, min_periods) ==
  Series([i \in 1..Len(s) |->
     LET I == Obs(s, i, window)
     IN IF Cardinality(I) < min_periods \/ I = {} THEN NaN ELSE MaxOver(s, I)])

\* Series.shift(1): the first entry is NaN
shift_roll(s) == Series([i \in 1..Len(s) |-> IF i = 1 THEN s[Len(s)] ELSE s[i - 1]])

shift_ahead(s) == Series([i \in 1..Len(s) |-> IF i = Len(s) THEN NaN ELSE s[i + 1]])

shift(s) == Series([i \in 1..Len(s) |-> IF i = 1 THEN NaN ELSE s[i - 1]])

(* ---------------- rsi_series ---------------- *)
gain_of(delta) == Series([i \in 1..Len(delta) |-> IF Gt(delta[i], Zero) THEN delta[i] ELSE Zero])

loss_signed(delta) == Series([i \in 1..Len(delta) |-> IF Lt(delta[i], Zero) THEN delta[i] ELSE Zero])

loss_of(delta) == Series([i \in 1..Len(delta) |-> IF Lt(delta[i], Zero) THEN Neg(delta[i]) ELSE Zero])

rsi_series(close, period) ==
  LET delta == diff(close)
      avg_gain == rolling_mean(gain_of(delta), period, 1)
      avg_loss == rolling_mean(loss_of(delta), period, 1)
      rs == Series([i \in 1..Len(close) |-> Div(avg_gain[i], avg_loss[i])])
  IN Series([i \in 1..Len(close) |-> Sub(Nm(100), Div(Nm(100), Add(Nm(1), rs[i])))])

RSI_diff_noabs(rsi) == Series([i \in 1..Len(rsi) |-> Div(Sub(rsi[i], Nm(50)), Nm(50))])

RSI_diff_of(rsi) == Series([i \in 1..Len(rsi) |-> Div(Abs(Sub(rsi[i], Nm(50))), Nm(50))])

(* ---------------- channel ---------------- *)
Range_of(res, sup) == Series([i \in 1..Len(res) |-> Sub(res[i], sup[i])])

Adj_Support_of(sup, d, rng) == Series([i \in 1..Len(sup) |-> Sub(sup[i], Mul(d[i], rng[i]))])

Adj_Resistance_of(res, d, rng) == Series([i \in 1..Len(res) |-> Add(res[i], Mul(d[i], rng[i]))])

Midline_of(asup, ares) == Series([i \in 1..Len(asup) |-> Div(Add(asup[i], ares[i]), Nm(2))])

(* ---------------- dropna ---------------- *)
\* positions whose four subset columns are all defined, in order
KeptRows(t) ==
  {i \in 1..Len(t.Close) :
     /\ ~isna(t.Smooth_Support[i])
     /\ ~isna(t.Smooth_Resistance[i])
     /\ ~isna(t.Smooth_Midline[i])
     /\ ~isna(t.RSI[i])}

RECURSIVE SortedSeq(_)
SortedSeq(S) ==
  IF S = {} THEN <<>>
  ELSE LET m == CHOOSE x \in S : \A y \in S : x <= y IN <<m>> \o SortedSeq(S \ {m})

Take(col, idx) == Series([k \in 1..Len(idx) |-> col[idx[k]]])

dropna(t) ==
  LET idx == SortedSeq(KeptRows(t))
  IN [c \in DOMAIN t |-> Take(t[c], idx)] @@ [index |-> idx]

(* ---------------- signals ---------------- *)
Buy_Signal_lt(v) ==
  LET pClose == shift(v.Close)
      pSup == shift(v.Smooth_Support)
      pRsi == shift(v.RSI)
  IN Series([k \in 1..Len(v.index) |->
        /\ Gt(v.Close[k], v.Smooth_Support[k])
        /\ Lt(pClose[k], pSup[k])
        /\ Gt(v.RSI[k], pRsi[k])])

Buy_Signal_of(v) ==
  LET pClose == shift(v.Close)
      pSup == shift(v.Smooth_Support)
      pRsi == shift(v.RSI)
  IN Series([k \in 1..Len(v.index) |->
        /\ Gt(v.Close[k], v.Smooth_Support[k])
        /\ Le(pClose[k], pSup[k])
        /\ Gt(v.RSI[k], pRsi[k])])

Sell_Signal_of(v) ==
  LET pClose == shift(v.Close)
      pRes == shift(v.Smooth_Resistance)
      pRsi == shift(v.RSI)
  IN Series([k \in 1..Len(v.index) |->
        /\ Lt(v.Close[k], v.Smooth_Resistance[k])
        /\ Ge(pClose[k], pRes[k])
        /\ Lt(v.RSI[k], pRsi[k])])

(* ---------------- the statements of the script, as table transforms ---- *)
\* prices["RSI"] = ...; prices["RSI_diff"] = ...
OscillatorT(t, period) ==
  LET rsi == rsi_series(t.Close, period)
  IN t @@ [RSI |-> rsi, RSI_diff |-> RSI_diff_of(rsi)]

\* prices["Base_Support"] = ...; ["Base_Resistance"]; ["Range"]
BaseChannelT(t, lb) ==
  LET sup == rolling_min(t.Close, lb, lb)
      res == rolling_max(t.Close, lb, lb)
  IN t @@ [Base_Support |-> sup, Base_Resistance |-> res, Range |-> Range_of(res, sup)]

\* prices["Adj_Support"] = ...; ["Adj_Resistance"]; ["Midline"]
AdaptiveChannelT(t) ==
  LET asup == Adj_Support_of(t.Base_Support, t.RSI_diff, t.Range)
      ares == Adj_Resistance_of(t.Base_Resistance, t.RSI_diff, t.Range)
  IN t @@ [Adj_Support |-> asup, Adj_Resistance |-> ares, Midline |-> Midline_of(asup, ares)]

\* prices["Smooth_Support"] = ...; ["Smooth_Resistance"]; ["Smooth_Midline"]
SmootherT(t, sl) ==
  t @@ [Smooth_Support |-> rolling_mean(t.Adj_Support, sl, sl),
        Smooth_Resistance |-> rolling_mean(t.Adj_Resistance, sl, sl),
        Smooth_Midline |-> rolling_mean(t.Midline, sl, sl)]

\* valid["Buy_Signal"] = ...; valid["Sell_Signal"] = ...
SignalDetectorT(v) ==
  v @@ [Buy_Signal |-> Buy_Signal_of(v), Sell_Signal |-> Sell_Signal_of(v)]

\* valid.iloc[-1]
LastRow(v) == [c \in DOMAIN v |-> v[c][Len(v.index)]]

\* prices.empty / valid.empty
empty(t, c) == Len(t[c]) = 0

(* ---------------- inputs ---------------- *)
NoTable == [x \in {} |-> 0]

CloseSeqs == UNION {[1..n -> 1..MaxClose] : n \in 0..MaxLen}

ToSeries(c) == Series([i \in 1..Len(c) |-> Nm(c[i])])

Init ==
  /\ pc = "load"
  /\ rsiPeriod \in MinRsiPeriod..MaxRsiPeriod
  /\ lookback \in MinLookback..MaxLookback
  /\ smoothLength \in MinSmooth..MaxSmooth
  /\ prices = NoTable
  /\ valid = NoTable
  /\ latest = NoTable
  /\ other = NoTable

(* ---------------- the script, statement by statement ---------------- *)
\* if prices.empty: st.error(...); st.stop()
AfterCheckPrices(t) == IF empty(t, "Close") THEN "no_data" ELSE "oscillator"

\* if valid.empty: st.warning(...); st.stop()
AfterCheckValid_nostop(v) == "signals"

AfterCheckValid(v) == IF empty(v, "index") THEN "insufficient" ELSE "signals"

\* one statement of a run r = [pc, prices, valid, latest] of the script
StepRun(r, period, lb, sl) ==
  CASE r.pc = "check_prices" -> [r EXCEPT !.pc = AfterCheckPrices(r.prices)]
    [] r.pc = "oscillator" -> [r EXCEPT !.prices = OscillatorT(r.prices, period), !.pc = "base"]
    [] r.pc = "base" -> [r EXCEPT !.prices = BaseChannelT(r.prices, lb), !.pc = "adjust"]
    [] r.pc = "adjust" -> [r EXCEPT !.prices = AdaptiveChannelT(r.prices), !.pc = "smooth"]
    [] r.pc = "smooth" -> [r EXCEPT !.prices = SmootherT(r.prices, sl), !.pc = "dropna"]
    [] r.pc = "dropna" -> [r EXCEPT !.valid = dropna(r.prices), !.pc = "check_valid"]
    [] r.pc = "check_valid" -> [r EXCEPT !.pc = AfterCheckValid(r.valid)]
    [] r.pc = "signals" -> [r EXCEPT !.valid = SignalDetectorT(r.valid), !.pc = "snapshot"]
    [] r.pc = "snapshot" /\ ~empty(r.valid, "index") ->
         [r EXCEPT !.latest = LastRow(r.valid), !.pc = "done"]
    [] OTHER -> r

Stopped(r) == r.pc \in {"no_data", "insufficient", "done"}

Me == [pc |-> pc, prices |-> prices, valid |-> valid, latest |-> latest]

Advance ==
  /\ \E r \in {StepRun(Me, rsiPeriod, lookback, smoothLength)} :
       /\ pc' = r.pc
       /\ prices' = r.prices
       /\ valid' = r.valid
       /\ latest' = r.latest
  /\ UNCHANGED <<rsiPeriod, lookback, smoothLength, other>>

\* prices, tried = load_data(...): the provider returns any bar sequence, maybe empty
load_data ==
  /\ pc = "load"
  /\ \E c \in CloseSeqs : prices' = [Close |-> ToSeries(c)]
  /\ pc' = "check_prices"
  /\ UNCHANGED <<rsiPeriod, lookback, smoothLength, valid, latest, other>>

CheckPrices == pc = "check_prices" /\ Advance

Oscillator == pc = "oscillator" /\ Advance

BaseChannel == pc = "base" /\ Advance

AdaptiveChannel == pc = "adjust" /\ Advance

Smoother == pc = "smooth" /\ Advance

DropNa == pc = "dropna" /\ Advance

CheckValid == pc = "check_valid" /\ Advance

SignalDetector == pc = "signals" /\ Advance

Snapshot == pc = "snapshot" /\ ~empty(valid, "index") /\ Advance

Next ==
  \/ load_data
  \/ CheckPrices
  \/ Oscillator
  \/ BaseChannel
  \/ AdaptiveChannel
  \/ Smoother
  \/ DropNa
  \/ CheckValid
  \/ SignalDetector
  \/ Snapshot

Spec == Init /\ [][Next]_vars

(* ---------------- rsi_series called on its own ---------------- *)
\* rsi_series(close, period) is an ordinary function: any integer period
\* >= 1 can be passed to it (a window of 0 is left out), with any bars
InitRsi ==
  /\ pc = "rsi_call"
  /\ rsiPeriod \in 1..MaxRsiPeriod
  /\ lookback = MinLookback
  /\ smoothLength = MinSmooth
  /\ \E c \in CloseSeqs : Len(c) > 0 /\ prices = [Close |-> ToSeries(c)]
  /\ valid = NoTable
  /\ latest = NoTable
  /\ other = NoTable

rsi_call ==
  /\ pc = "rsi_call"
  /\ prices' = prices @@ [RSI |-> rsi_series(prices.Close, rsiPeriod)]
  /\ pc' = "rsi_return"
  /\ UNCHANGED <<rsiPeriod, lookback, smoothLength, valid, latest, other>>

NextRsi == rsi_call

SpecRsi == InitRsi /\ [][NextRsi]_vars

(* ---------------- two runs of the script side by side ---------------- *)
\* the first position where two sequences of equal length differ, or 0
FirstDiff(c, d) ==
  IF c = d THEN 0 ELSE CHOOSE i \in 1..Len(c) : c[i] # d[i] /\ \A j \in 1..(i - 1) : c[j] = d[j]

\* two bar sequences of the same length that agree on a first stretch of
\* bars and then differ; the same parameters for both runs.  The two runs
\* execute the same code, so the pair is taken once, lower bar first.
InitPair ==
  /\ pc = "check_prices"
  /\ rsiPeriod \in MinRsiPeriod..MaxRsiPeriod
  /\ lookback \in MinLookback..MaxLookback
  /\ smoothLength \in MinSmooth..MaxSmooth
  /\ \E c \in CloseSeqs, d \in CloseSeqs :
       /\ Len(c) = Len(d)
       /\ FirstDiff(c, d) >= 2
       /\ c[FirstDiff(c, d)] < d[FirstDiff(c, d)]
       /\ prices = [Close |-> ToSeries(c)]
       /\ other = [pc |-> "check_prices", prices |-> [Close |-> ToSeries(d)],
                   valid |-> NoTable, latest |-> NoTable]
  /\ valid = NoTable
  /\ latest = NoTable

\* both runs execute their next statement
PairStep ==
  /\ ~(Stopped(Me) /\ Stopped(other))
  /\ \E r \in {StepRun(Me, rsiPeriod, lookback, smoothLength)} :
       /\ pc' = r.pc
       /\ prices' = r.prices
       /\ valid' = r.valid
       /\ latest' = r.latest
  /\ other' = StepRun(other, rsiPeriod, lookback, smoothLength)
  /\ UNCHANGED <<rsiPeriod, lookback, smoothLength>>

NextPair == PairStep

SpecPair == InitPair /\ [][NextPair]_vars

(* ======================= properties ======================= *)
Has(t, c) == c \in DOMAIN t

N == Len(prices.Close)

\* the row of the valid table that holds bar i, or 0
RowOf(v, i) == IF \E k \in 1..Len(v.index) : v.index[k] = i
                 THEN CHOOSE k \in 1..Len(v.index) : v.index[k] = i
                 ELSE 0

NoFlag(v) == \A k \in 1..Len(v.index) : ~v.Buy_Signal[k] /\ ~v.Sell_Signal[k]

\* C1: at every row k > 1 of the valid table, holding bar i with bar p in the
\* row before it, Buy_Signal is true iff close[i] > smoothed support[i] and
\* close[p] <= smoothed support[p] and RSI[i] > RSI[p]; Sell_Signal is true
\* iff close[i] < smoothed resistance[i] and close[p] >= smoothed
\* resistance[p] and RSI[i] < RSI[p].
C1_SignalRule ==
  Has(valid, "Buy_Signal") /\ Has(valid, "Sell_Signal") =>
    \A k \in 2..Len(valid.index) :
      LET i == valid.index[k]
          p == valid.index[k - 1]
      IN /\ valid.Buy_Signal[k] <=>
              /\ Gt(prices.Close[i], prices.Smooth_Support[i])
              /\ Le(prices.Close[p], prices.Smooth_Support[p])
              /\ Gt(prices.RSI[i], prices.RSI[p])
         /\ valid.Sell_Signal[k] <=>
              /\ Lt(prices.Close[i], prices.Smooth_Resistance[i])
              /\ Ge(prices.Close[p], prices.Smooth_Resistance[p])
              /\ Lt(prices.RSI[i], prices.RSI[p])

C1_Witness ==
  /\ Has(valid, "Buy_Signal")
  /\ \E k \in 2..Len(valid.index) : valid.Buy_Signal[k]
  /\ \E k \in 2..Len(valid.index) :
       ~valid.Buy_Signal[k] /\ Ge(valid.Close[k], valid.Smooth_Support[k])

\* a sell signal is reachable as well
C1_SellReached ==
  Has(valid, "Sell_Signal") /\ \E k \in 2..Len(valid.index) : valid.Sell_Signal[k]

\* C2: whenever the valid table is empty the run is at the emptiness test or
\* stopped for insufficient data; no signal column was computed and no latest
\* row was taken.
C2_EmptyValidStops ==
  Has(valid, "index") /\ empty(valid, "index") =>
    /\ pc \in {"check_valid", "insufficient"}
    /\ ~Has(valid, "Buy_Signal")
    /\ ~Has(valid, "Sell_Signal")
    /\ DOMAIN latest = {}

C2_Witness ==
  /\ pc = "insufficient"
  /\ N = 3
  /\ lookback = MinLookback
  /\ empty(valid, "index")

\* C3: a call of rsi_series with a period below 2 returns no oscillator: it
\* fails before anything is computed.
C3_InvalidPeriodRejected ==
  rsiPeriod < MinRsiPeriod => pc # "rsi_return" /\ ~Has(prices, "RSI")

Flat(t) == Has(t, "Close") /\ \A i \in 1..Len(t.Close) : t.Close[i] = t.Close[1]

\* C4: for identical closes the oscillator is 100 at every position after the
\* first, Range is 0 wherever the base channel is defined, and no row carries
\* a buy or a sell signal.
C4_FlatSeries ==
  Flat(prices) =>
    /\ Has(prices, "RSI") => \A i \in 2..N : prices.RSI[i] = Nm(100)
    /\ Has(prices, "Range") =>
         \A i \in 1..N : ~isna(prices.Base_Support[i]) => prices.Range[i] = Zero
    /\ Has(valid, "Buy_Signal") => NoFlag(valid)

\* C5: wherever the oscillator is defined it lies in [0, 100], and the
\* deviation |RSI - 50| / 50 lies in [0, 1].
C5_OscillatorRange ==
  Has(prices, "RSI") =>
    \A i \in 1..N :
      ~isna(prices.RSI[i]) =>
        /\ Le(Zero, prices.RSI[i])
        /\ Le(prices.RSI[i], Nm(100))
        /\ Le(Zero, prices.RSI_diff[i])
        /\ Le(prices.RSI_diff[i], Nm(1))

C5_Witness ==
  /\ Has(prices, "RSI")
  /\ \E i, j, k \in 1..N :
       /\ prices.RSI[i] = Zero
       /\ prices.RSI[j] = Nm(100)
       /\ Lt(Zero, prices.RSI[k])
       /\ Lt(prices.RSI[k], Nm(50))

Ordered(lo, mid, hi) ==
  \A i \in 1..Len(mid) :
    ~isna(lo[i]) /\ ~isna(mid[i]) /\ ~isna(hi[i]) => Le(lo[i], mid[i]) /\ Le(mid[i], hi[i])

\* C6: wherever support, midline and resistance are all defined,
\* support <= midline <= resistance, for the adjusted channel and for the
\* smoothed channel.
C6_ChannelOrdering ==
  /\ Has(prices, "Midline") =>
       Ordered(prices.Adj_Support, prices.Midline, prices.Adj_Resistance)
  /\ Has(prices, "Smooth_Midline") =>
       Ordered(prices.Smooth_Support, prices.Smooth_Midline, prices.Smooth_Resistance)

C6_Witness ==
  /\ Has(prices, "Smooth_Midline")
  /\ smoothLength > 1
  /\ \E i \in 1..N :
       /\ Lt(prices.Smooth_Support[i], prices.Smooth_Midline[i])
       /\ Lt(prices.Smooth_Midline[i], prices.Smooth_Resistance[i])
       /\ Lt(prices.Smooth_Support[i], prices.Base_Support[i])

\* C7: base support and resistance are undefined at the first lookback - 1
\* bars and defined from then on; the smoothed support, resistance and
\* midline are undefined at the first lookback + smoothLength - 2 bars and
\* defined from then on.
C7_WarmUp ==
  /\ Has(prices, "Base_Support") =>
       \A i \in 1..N :
         /\ isna(prices.Base_Support[i]) <=> i < lookback
         /\ isna(prices.Base_Resistance[i]) <=> i < lookback
  /\ Has(prices, "Smooth_Support") =>
       \A i \in 1..N :
         /\ isna(prices.Smooth_Support[i]) <=> i < lookback + smoothLength - 1
         /\ isna(prices.Smooth_Resistance[i]) <=> i < lookback + smoothLength - 1
         /\ isna(prices.Smooth_Midline[i]) <=> i < lookback + smoothLength - 1

(* two runs: the bars before the first differing bar *)
Before == 1..(FirstDiff(prices.Close, other.prices.Close) - 1)

PricesColumns ==
  {"RSI", "RSI_diff", "Base_Support", "Base_Resistance", "Range", "Adj_Support",
   "Adj_Resistance", "Midline", "Smooth_Support", "Smooth_Resistance", "Smooth_Midline"}

FlagAt(v, col, j) ==
  IF Has(v, col) /\ RowOf(v, j) # 0 THEN <<v[col][RowOf(v, j)]>> ELSE <<>>

\* C8: two runs on bars that agree before position i and differ at i, with
\* the same parameters, give the same value at every position before i in
\* every column of prices, keep the same positions before i in valid, and
\* give them the same buy and sell flags.
C8_NoLookAhead ==
  /\ \A col \in PricesColumns :
       /\ Has(prices, col) <=> Has(other.prices, col)
       /\ Has(prices, col) => \A j \in Before : prices[col][j] = other.prices[col][j]
  /\ Has(valid, "index") <=> Has(other.valid, "index")
  /\ Has(valid, "index") =>
       \A j \in Before : RowOf(valid, j) # 0 <=> RowOf(other.valid, j) # 0
  /\ \A j \in Before :
       Stopped(Me) /\ Stopped(other) =>
         /\ FlagAt(valid, "Buy_Signal", j) = FlagAt(other.valid, "Buy_Signal", j)
         /\ FlagAt(valid, "Sell_Signal", j) = FlagAt(other.valid, "Sell_Signal", j)

C8_Witness ==
  /\ pc = "done"
  /\ other.pc = "done"
  /\ \E j \in Before : FlagAt(valid, "Buy_Signal", j) = <<TRUE>>
  /\ prices.RSI # other.prices.RSI
  /\ valid.Smooth_Support # other.valid.Smooth_Support

\* C9: the valid table holds a trailing run of bars: once a bar is kept,
\* every later bar is kept too.
C9_ValidIsTrailing ==
  Has(valid, "index") =>
    \A k \in 1..Len(valid.index) :
      \A j \in valid.index[k]..N : RowOf(valid, j) # 0

\* C10: the first row of the valid table carries neither a buy nor a sell
\* signal.
C10_FirstRowNoSignal ==
  Has(valid, "Buy_Signal") /\ ~empty(valid, "index") =>
    ~valid.Buy_Signal[1] /\ ~valid.Sell_Signal[1]

C10_Witness ==
  /\ Has(valid, "Buy_Signal")
  /\ Len(valid.index) >= 2
  /\ Gt(valid.Close[1], valid.Smooth_Support[1])
  /\ Le(valid.Close[Len(valid.index)], valid.Smooth_Support[Len(valid.index)])
  /\ Gt(valid.RSI[1], valid.RSI[Len(valid.index)])

====
